---- MODULE Spec2Model ----
(***************************************************************************)
(* File_Auto_Classify.py: scan a directory tree into a catalog keyed by    *)
(* file name, read EXIF metadata keyed by base name, then move every       *)
(* cataloged file first into an EXIF folder (camera model or capture date) *)
(* and then into an extension folder.                                      *)
(*                                                                         *)
(* A name is a sequence of one-character strings, a path is a sequence of  *)
(* names relative to target_path (<<>> is target_path itself).  The file   *)
(* system is the set of directories `dirs` and the function `fs` from file *)
(* paths to file contents; directory permissions are POSIX ones.           *)
(***************************************************************************)
EXTENDS Integers, Sequences, FiniteSets, TLC

VARIABLES
    fs,               \* file path -> [id, tags]; id is the path the file had at start
    dirs,             \* set of directory paths
    unreadable,       \* directories that cannot be listed (-wx)
    readonly,         \* directories that cannot be written (r-x)
    exif_classify_mode, \* ImageInfo.exif_classify_mode
    is_ext_classify,  \* ImageInfo.is_ext_classify
    file_info,        \* ImageInfo.file_info : file name -> info
    order,            \* key order of file_info (dict insertion order)
    exif_dic,         \* ImageInfo.exif_dic : base name -> exif record
    walk,             \* directories os.walk still has to visit (top first)
    pc,               \* position in main()
    i,                \* index of the current loop over file_info
    err,              \* <<function, exception>> that ended the run, <<>> if none
    run,              \* number of the current invocation of main()
    orig,             \* file name -> folder recorded by the scan of this run
    out1,             \* file name -> outcome of the EXIF pass move of this run
    out2,             \* file name -> outcome of the extension pass move of this run
    lastMove,         \* the last move attempt and the file system just before it
    fsStart,          \* fs at the start of this run
    dirsStart         \* dirs at the start of this run

vars == <<fs, dirs, unreadable, readonly, exif_classify_mode, is_ext_classify,
          file_info, order, exif_dic, walk, pc, i, err, run, orig, out1, out2,
          lastMove, fsStart, dirsStart>>

----------------------------------------------------------------------------
(* Bounds *)

MaxFiles == 2
MaxRuns == 2

----------------------------------------------------------------------------
(* Names *)

AJ == <<"a", ".", "j">>
AR == <<"a", ".", "r">>
BJ == <<"b", ".", "j">>
NoExtName == <<"j">>
DotName == <<"c", ".">>

FileNames == {AJ, AR, BJ, NoExtName, DotName}

\* the names the files of the subfolders are drawn from
SubNames == {AJ, BJ}

ExtDir == <<"j">>
CamDir == <<"X">>

Root == <<>>

\* Values of the metadata tags of an image
ModelValue == <<"X">>
DateTimeValue == <<"1", ":", "2", " ", "3">>
TagNames == {"EXIF DateTimeOriginal", "Image Model", "EXIF ISOSpeedRatings",
             "EXIF ExposureTime", "EXIF FNumber"}
TagSets == {TagNames, TagNames \ {"EXIF DateTimeOriginal"}, TagNames \ {"Image Model"}}

\* config["exif_mode"]; IntZero stands for the JSON number 0
IntZero == "int:0"
ModeValues == {"", "0", "1", "2", IntZero}

----------------------------------------------------------------------------
(* Strings and paths *)

Dots(s) == {k \in 1..Len(s) : s[k] = "."}

Max(S) == CHOOSE m \in S : \A x \in S : x <= m

\* os.path.splitext on a bare file name
SplitExt(file) ==
    IF Dots(file) = {} THEN <<file, <<>>>>
    ELSE LET dotIndex == Max(Dots(file))
         IN IF \E k \in 1..(dotIndex - 1) : file[k] # "."
            THEN <<SubSeq(file, 1, dotIndex - 1), SubSeq(file, dotIndex, Len(file))>>
            ELSE <<file, <<>>>>

IsNotDot(c) == c # "."

\* file_expand_name.replace(".", "")
StripDots(s) == SelectSeq(s, IsNotDot)

Colon2Dash(s) == [k \in 1..Len(s) |-> IF s[k] = ":" THEN "-" ELSE s[k]]

Spaces(s) == {k \in 1..Len(s) : s[k] = " "}

\* printable.split(" ")[0]
SplitFirst(s) ==
    IF Spaces(s) = {} THEN s
    ELSE SubSeq(s, 1, (CHOOSE m \in Spaces(s) : \A x \in Spaces(s) : m <= x) - 1)

\* printable.split(" ")[-1]
SplitLast(s) ==
    IF Spaces(s) = {} THEN s
    ELSE SubSeq(s, Max(Spaces(s)) + 1, Len(s))

\* os.path.join(folder, name): joining "" only adds a trailing separator
Join(folder, name) == IF name = <<>> THEN folder ELSE Append(folder, name)

\* os.path.dirname
Dirname(path) == SubSeq(path, 1, Len(path) - 1)

Basename(path) == path[Len(path)]

Perms(S) ==
    {s \in [1..Cardinality(S) -> S] : \A a, b \in 1..Cardinality(S) : a # b => s[a] # s[b]}

----------------------------------------------------------------------------
(* The file system: os.makedirs, shutil.move *)

EmptyMap == [f \in {} |-> {}]

Put(map, key, val) == [k \in (DOMAIN map) \cup {key} |-> IF k = key THEN val ELSE map[k]]

Remove(map, key) == [k \in (DOMAIN map) \ {key} |-> map[k]]

\* os.mkdir(name) after the parents were handled, with exist_ok=True
Mkdir(ds, fsys, ro, name) ==
    IF name \in ds THEN [exc |-> "ok", dirs |-> ds]
    ELSE IF name \in DOMAIN fsys THEN [exc |-> "FileExistsError", dirs |-> ds]
    ELSE IF Dirname(name) \in DOMAIN fsys THEN [exc |-> "NotADirectoryError", dirs |-> ds]
    ELSE IF Dirname(name) \notin ds THEN [exc |-> "FileNotFoundError", dirs |-> ds]
    ELSE IF Dirname(name) \in ro THEN [exc |-> "PermissionError", dirs |-> ds]
    ELSE [exc |-> "ok", dirs |-> ds \cup {name}]

RECURSIVE Makedirs(_, _, _, _)
\* os.makedirs(name, exist_ok=True): the missing parents first, then name
Makedirs(ds, fsys, ro, name) ==
    IF name = Root \/ Dirname(name) \in ds \/ Dirname(name) \in DOMAIN fsys
    THEN Mkdir(ds, fsys, ro, name)
    ELSE LET head == Makedirs(ds, fsys, ro, Dirname(name))
         IN IF head.exc \in {"ok", "FileExistsError"}
            THEN Mkdir(head.dirs, fsys, ro, name)
            ELSE head

\* shutil.move(src, dst) of a regular file onto a path that is not a
\* directory: os.rename, and on OSError copy2 followed by os.unlink.
\* rename replaces an existing dst; copy2 rewrites an existing dst.
Move(fsys, ro, src, dst) ==
    IF src \notin DOMAIN fsys THEN [exc |-> "FileNotFoundError", fs |-> fsys]
    ELSE IF src = dst THEN [exc |-> "ok", fs |-> fsys]
    ELSE IF Dirname(src) \notin ro /\ Dirname(dst) \notin ro
    THEN [exc |-> "ok", fs |-> Remove(Put(fsys, dst, fsys[src]), src)]
    ELSE IF dst \notin DOMAIN fsys /\ Dirname(dst) \in ro
    THEN [exc |-> "PermissionError", fs |-> fsys]
    ELSE IF Dirname(src) \in ro
    THEN [exc |-> "PermissionError", fs |-> Put(fsys, dst, fsys[src])]
    ELSE [exc |-> "ok", fs |-> Remove(Put(fsys, dst, fsys[src]), src)]

FilesIn(fsys, d) == {p \in DOMAIN fsys : Dirname(p) = d}

SubdirsOf(ds, d) == {x \in ds : x # Root /\ Dirname(x) = d}

----------------------------------------------------------------------------
(* ImageInfo *)

Info(root, file) ==
    [Name |-> SplitExt(file)[1],
     ext |-> StripDots(SplitExt(file)[2]),
     Path |-> Append(root, file),
     Folder |-> root]

RECURSIVE AddFiles(_, _, _)
\* the inner loop of get_file_info over the files of one directory
AddFiles(cat, root, paths) ==
    IF paths = <<>> THEN cat
    ELSE LET file == Basename(Head(paths))
             next == IF SplitExt(file)[2] # <<>>
                     THEN [info |-> Put(cat.info, file, Info(root, file)),
                           order |-> IF file \in DOMAIN cat.info THEN cat.order
                                     ELSE Append(cat.order, file)]
                     ELSE cat
         IN AddFiles(next, root, Tail(paths))

\* tags.get(tag) is None
Missing(content) == TagNames \ content.tags

FileExif(info) ==
    [Type |-> info.ext,
     Date |-> Colon2Dash(SplitFirst(DateTimeValue)),
     Time |-> SplitLast(DateTimeValue),
     CameraModel |-> ModelValue]

\* if self.exif_classify_mode:
Truthy(mode) == mode \notin {"", IntZero}

ExifDstFolder(mode, root_path, exif) ==
    IF mode = "0" THEN Join(root_path, exif.CameraModel)
    ELSE Join(root_path, exif.Date)

\* the record after a move that stores the new path and forgets the folder
ExifUpdatePathOnly(info, dst_path, dst_folder) ==
    [info EXCEPT !.Path = dst_path]

ExifUpdate(info, dst_path, dst_folder) ==
    [info EXCEPT !.Path = dst_path, !.Folder = dst_folder]

TypeFolder(info) == Join(info.Folder, info.ext)

ExpandUpdate(info, file_new_path) == [info EXCEPT !.Path = file_new_path]

\* the outcome reported for an exception of shutil.move
Outcome(exc) ==
    CASE exc = "ok" -> "ok"
      [] exc = "FileExistsError" -> "AlreadyExists"
      [] exc = "PermissionError" -> "PermissionDenied"
      [] exc = "FileNotFoundError" -> "SourceMissing"

NoMove == [pass |-> 0, file |-> <<>>, src |-> <<>>, dst |-> <<>>,
           victims |-> {}, before |-> {}, exc |-> "none"]

Ids(fsys) == {fsys[p].id : p \in DOMAIN fsys}

Attempt(pass, file, src, dst, exc) ==
    [pass |-> pass, file |-> file, src |-> src, dst |-> dst,
     victims |-> IF dst \in DOMAIN fs /\ dst # src THEN {fs[dst].id} ELSE {},
     before |-> Ids(fs), exc |-> exc]

NoOutcome(info) == [f \in DOMAIN info |-> "none"]

----------------------------------------------------------------------------
(* Initial states: a tree under target_path and a config.json *)

OptDirs == {<<ExtDir>>, <<CamDir>>}

Placements(ds) ==
    {p \in {Append(Root, n) : n \in FileNames} : p \notin ds}
      \cup {Append(d, n) : d \in ds \ {Root}, n \in SubNames}

Init ==
    /\ \E opt \in SUBSET OptDirs :
         /\ dirs = {Root} \cup opt
         /\ \E flagged \in {x \in SUBSET opt : Cardinality(x) <= 1} :
              \/ unreadable = flagged /\ readonly = {}
              \/ unreadable = {} /\ readonly = flagged /\ flagged # {}
    /\ \E paths \in {x \in SUBSET Placements(dirs) : Cardinality(x) <= MaxFiles} :
         \E tags \in {t \in [paths -> TagSets] :
                          Cardinality({p \in paths : t[p] # TagNames}) <= 1} :
            fs = [p \in paths |-> [id |-> p, tags |-> tags[p]]]
    /\ exif_classify_mode \in ModeValues
    /\ is_ext_classify \in BOOLEAN
    /\ file_info = EmptyMap
    /\ order = <<>>
    /\ exif_dic = EmptyMap
    /\ walk = <<Root>>
    /\ pc = "scan"
    /\ i = 1
    /\ err = <<>>
    /\ run = 1
    /\ orig = EmptyMap
    /\ out1 = EmptyMap
    /\ out2 = EmptyMap
    /\ lastMove = NoMove
    /\ fsStart = fs
    /\ dirsStart = dirs

config == <<exif_classify_mode, is_ext_classify, unreadable, readonly>>

----------------------------------------------------------------------------
(* get_file_info: one directory yielded by os.walk *)

ScanDir ==
    /\ pc = "scan"
    /\ walk # <<>>
    /\ LET root == Head(walk) IN
         IF root \in unreadable
         THEN /\ walk' = Tail(walk)
              /\ UNCHANGED <<file_info, order, orig, out1, out2>>
         ELSE \E files \in Perms(FilesIn(fs, root)), subdirs \in Perms(SubdirsOf(dirs, root)) :
                LET cat == AddFiles([info |-> file_info, order |-> order], root, files) IN
                  /\ file_info' = cat.info
                  /\ order' = cat.order
                  /\ orig' = [f \in DOMAIN cat.info |-> cat.info[f].Folder]
                  /\ out1' = NoOutcome(cat.info)
                  /\ out2' = NoOutcome(cat.info)
                  /\ walk' = subdirs \o Tail(walk)
    /\ pc' = IF walk' = <<>> THEN "extract" ELSE "scan"
    /\ i' = 1
    /\ UNCHANGED <<fs, dirs, config, exif_dic, err, run, lastMove, fsStart, dirsStart>>

(* get_exif_metadata: one file of the loop *)
GetExifFile ==
    /\ pc = "extract"
    /\ i <= Len(order)
    /\ LET info == file_info[order[i]] IN
         IF info.Name \in DOMAIN exif_dic
         THEN /\ i' = i + 1
              /\ UNCHANGED <<exif_dic, pc, err>>
         ELSE IF info.Path \notin DOMAIN fs
         THEN /\ pc' = "aborted"
              /\ err' = <<"get_exif_metadata", "FileNotFoundError">>
              /\ UNCHANGED <<exif_dic, i>>
         ELSE IF Missing(fs[info.Path]) # {}
         THEN /\ pc' = "aborted"
              /\ err' = <<"get_exif_metadata", "AttributeError">>
              /\ UNCHANGED <<exif_dic, i>>
         ELSE /\ exif_dic' = Put(exif_dic, info.Name, FileExif(info))
              /\ i' = i + 1
              /\ UNCHANGED <<pc, err>>
    /\ UNCHANGED <<fs, dirs, config, file_info, order, walk, run, orig, out1, out2,
                   lastMove, fsStart, dirsStart>>

(* end of get_exif_metadata, then the mode test that opens classify_exif *)
GetExifDone ==
    /\ pc = "extract"
    /\ i > Len(order)
    /\ pc' = IF Truthy(exif_classify_mode) THEN "exif" ELSE "ext"
    /\ i' = 1
    /\ UNCHANGED <<fs, dirs, config, file_info, order, exif_dic, walk, err, run, orig,
                   out1, out2, lastMove, fsStart, dirsStart>>

(* classify_exif: one file of the loop *)
ClassifyExifFile ==
    /\ pc = "exif"
    /\ i <= Len(order)
    /\ LET file == order[i]
           file_name == SplitExt(file)[1]
           original_path == file_info[file].Path
           root_path == Dirname(original_path)
       IN
         IF file_name \notin DOMAIN exif_dic
         THEN /\ i' = i + 1
              /\ UNCHANGED <<fs, dirs, file_info, pc, err, out1, lastMove>>
         ELSE IF exif_classify_mode = ""
         THEN /\ pc' = "ext"
              /\ i' = 1
              /\ UNCHANGED <<fs, dirs, file_info, err, out1, lastMove>>
         ELSE IF exif_classify_mode \notin {"0", "1"}
         THEN /\ pc' = "aborted"
              /\ err' = <<"classify_exif", "UnsupportedMode">>
              /\ UNCHANGED <<fs, dirs, file_info, i, out1, lastMove>>
         ELSE LET dst_folder == ExifDstFolder(exif_classify_mode, root_path, exif_dic[file_name])
                  made == Makedirs(dirs, fs, readonly, dst_folder)
                  dst_path == Append(dst_folder, file)
                  moved == Move(fs, readonly, original_path, dst_path)
              IN
                IF made.exc # "ok"
                THEN /\ dirs' = made.dirs
                     /\ pc' = "aborted"
                     /\ err' = <<"classify_exif", made.exc>>
                     /\ UNCHANGED <<fs, file_info, i, out1, lastMove>>
                ELSE /\ dirs' = made.dirs
                     /\ fs' = moved.fs
                     /\ lastMove' = Attempt(1, file, original_path, dst_path, moved.exc)
                     /\ out1' = [out1 EXCEPT ![file] = Outcome(moved.exc)]
                     /\ file_info' = IF moved.exc = "ok"
                                     THEN [file_info EXCEPT
                                             ![file] = ExifUpdate(@, dst_path, dst_folder)]
                                     ELSE file_info
                     /\ i' = i + 1
                     /\ UNCHANGED <<pc, err>>
    /\ UNCHANGED <<config, order, exif_dic, walk, run, orig, out2, fsStart, dirsStart>>

(* end of classify_exif *)
ClassifyExifDone ==
    /\ pc = "exif"
    /\ i > Len(order)
    /\ pc' = "ext"
    /\ i' = 1
    /\ UNCHANGED <<fs, dirs, config, file_info, order, exif_dic, walk, err, run, orig,
                   out1, out2, lastMove, fsStart, dirsStart>>

(* classify_expand_name: one file of the loop *)
ClassifyExpandFile ==
    /\ pc = "ext"
    /\ i <= Len(order)
    /\ LET file == order[i]
           type_folder == TypeFolder(file_info[file])
           made == Makedirs(dirs, fs, readonly, type_folder)
           file_original_path == file_info[file].Path
           file_new_path == Append(type_folder, file)
           moved == Move(fs, readonly, file_original_path, file_new_path)
       IN
         IF made.exc # "ok"
         THEN /\ dirs' = made.dirs
              /\ pc' = "aborted"
              /\ err' = <<"classify_expand_name", made.exc>>
              /\ UNCHANGED <<fs, file_info, i, out2, lastMove>>
         ELSE /\ dirs' = made.dirs
              /\ fs' = moved.fs
              /\ lastMove' = Attempt(2, file, file_original_path, file_new_path, moved.exc)
              /\ out2' = [out2 EXCEPT ![file] = Outcome(moved.exc)]
              /\ file_info' = IF moved.exc = "ok"
                              THEN [file_info EXCEPT ![file] = ExpandUpdate(@, file_new_path)]
                              ELSE file_info
              /\ i' = i + 1
              /\ UNCHANGED <<pc, err>>
    /\ UNCHANGED <<config, order, exif_dic, walk, run, orig, out1, fsStart, dirsStart>>

(* end of classify_expand_name, "Finished Classify!" *)
ClassifyExpandDone ==
    /\ pc = "ext"
    /\ i > Len(order)
    /\ pc' = "done"
    /\ UNCHANGED <<fs, dirs, config, file_info, order, exif_dic, walk, i, err, run, orig,
                   out1, out2, lastMove, fsStart, dirsStart>>

(* the program is started again on the same target_path with the same config *)
Restart ==
    /\ pc = "done"
    /\ run < MaxRuns
    /\ run' = run + 1
    /\ file_info' = EmptyMap
    /\ order' = <<>>
    /\ exif_dic' = EmptyMap
    /\ walk' = <<Root>>
    /\ pc' = "scan"
    /\ i' = 1
    /\ orig' = EmptyMap
    /\ out1' = EmptyMap
    /\ out2' = EmptyMap
    /\ lastMove' = NoMove
    /\ fsStart' = fs
    /\ dirsStart' = dirs
    /\ UNCHANGED <<fs, dirs, config, err>>

Next ==
    \/ ScanDir
    \/ GetExifFile
    \/ GetExifDone
    \/ ClassifyExifFile
    \/ ClassifyExifDone
    \/ ClassifyExpandFile
    \/ ClassifyExpandDone
    \/ Restart

Spec == Init /\ [][Next]_vars

----------------------------------------------------------------------------
(* Properties *)

\* the values config.json documents for exif_mode
ValidMode == exif_classify_mode \in {"", "0", "1"}

ExifSegment == IF exif_classify_mode = "0" THEN <<"X">> ELSE <<"1", "-", "2">>

BothMoved(f) == out1[f] = "ok" /\ out2[f] = "ok"

\* C1: with exif_mode "0" or "1" and extension classification enabled, a
\* cataloged file with an EXIF record whose two moves succeeded ends at
\* originalFolder/<camera model or capture date>/<ext>/<file name>, and the
\* file found there is the one that was at originalFolder/<file name>.
PriorityLaw ==
    (pc = "done" /\ exif_classify_mode \in {"0", "1"} /\ is_ext_classify) =>
        \A f \in DOMAIN file_info :
            (file_info[f].Name \in DOMAIN exif_dic /\ BothMoved(f)) =>
                LET final == Append(Join(Append(orig[f], ExifSegment), file_info[f].ext), f) IN
                  /\ file_info[f].Path = final
                  /\ final \in DOMAIN fs
                  /\ fs[final] = fsStart[Append(orig[f], f)]

PriorityLawWitness ==
    /\ pc = "done"
    /\ exif_classify_mode \in {"0", "1"}
    /\ is_ext_classify
    /\ \E f \in DOMAIN file_info :
         /\ BothMoved(f)
         /\ file_info[f].ext = <<"j">>
         /\ file_info[f].Path = Append(Append(Append(orig[f], ExifSegment), <<"j">>), f)

\* C2: the extension pass attempts moves only when classify_by_ext is true,
\* and with classify_by_ext false and exif_mode "" a finished run has
\* changed neither the files nor the folders.
ExtensionGate ==
    /\ ~is_ext_classify => \A f \in DOMAIN out2 : out2[f] = "none"
    /\ (~is_ext_classify /\ exif_classify_mode = "" /\ pc = "done") =>
           (fs = fsStart /\ dirs = dirsStart)

\* C3: a second run with the same config over the tree the first run
\* produced moves no file and creates no folder.
RoundTripNoOp ==
    (run > 1 /\ pc = "done" /\ is_ext_classify /\ ValidMode) => (fs = fsStart /\ dirs = dirsStart)

\* C4: a move whose destination path is occupied by another file is rejected
\* as AlreadyExists, the moved file stays at its source path and the file at
\* the destination is still on disk.
CollisionSafety ==
    (lastMove.victims # {} /\ is_ext_classify /\ ValidMode) =>
        /\ Outcome(lastMove.exc) = "AlreadyExists"
        /\ lastMove.src \in DOMAIN fs
        /\ lastMove.victims \subseteq Ids(fs)

\* C5: nothing but an unsupported exif_mode ends a run inside one of the two
\* classification passes.
ErrorIsolation ==
    (err # <<>> /\ err[1] \in {"classify_exif", "classify_expand_name"} /\ is_ext_classify) =>
        err[2] = "UnsupportedMode"

\* C6: with an exif_mode other than "0", "1" and "" the run never enters the
\* extension pass and never reports completion.
UnsupportedModeFatal ==
    exif_classify_mode \notin {"0", "1", ""} => pc \notin {"ext", "done"}

\* C7: a file whose move failed in the EXIF pass gets no move attempt in the
\* extension pass.
SkipAfterFailure ==
    (is_ext_classify /\ ValidMode) =>
        \A f \in DOMAIN out1 : out1[f] \notin {"none", "ok"} => out2[f] = "none"

\* C8: reading the metadata of a file that lacks a required tag never ends
\* the run.
MissingMetadataNotFatal ==
    (err # <<>> /\ ValidMode) => err[1] # "get_exif_metadata"

Listed(p) == \A k \in 0..(Len(p) - 1) : SubSeq(p, 1, k) \notin unreadable

\* C9: after the scan the catalog holds, for every file with a non-empty
\* extension in a directory the walk could list, a record with that file's
\* path and folder and a non-empty extension token.
CatalogExact ==
    (pc = "extract" /\ ValidMode) =>
        \A p \in DOMAIN fs :
            (Listed(p) /\ SplitExt(Basename(p))[2] # <<>>) =>
                \E f \in DOMAIN file_info :
                    /\ file_info[f].Path = p
                    /\ file_info[f].Folder = Dirname(p)
                    /\ file_info[f].ext # <<>>

\* C10: the folder of every record is the directory of its path.
RecordConsistency ==
    (is_ext_classify /\ ValidMode) =>
        \A f \in DOMAIN file_info : file_info[f].Folder = Dirname(file_info[f].Path)

====
